---- MODULE Spec2Model ----
(***************************************************************************)
(* Model of common/models.py: the four Q-value networks VanillaDQN,        *)
(* DuelingDQN, DistributionalDQN and RecurrentDQN.                         *)
(*                                                                         *)
(* A tensor is a record [shape, data]: shape is the tuple of its sizes,    *)
(* data its elements in row-major (contiguous) order, as the tensor        *)
(* library stores them.  An observation batch is given by its shape alone. *)
(* The weights of a layer stack are arbitrary: set at random when the      *)
(* constructor builds the stack, changed only by an external optimiser.    *)
(* They are part of the instance and are explored by the elements they     *)
(* make the stack emit (Weights, Emit); the shape a stack emits, and the   *)
(* errors it raises, are computed from its layers.                         *)
(* A call that raises yields Raise(kind) instead of a value.               *)
(*                                                                         *)
(* Scalars: the elements a stack emits stand for arbitrary reals.  A logit *)
(* k stands for the real number k * ln 2, so that exp(k * ln 2) = 2^k is   *)
(* an exact rational; probabilities and expected values are rationals      *)
(* <<numerator, denominator>> in lowest terms.                             *)
(* delta_z and the support are computed as the constructor computes them,  *)
(* in binary floating point: delta_z is a double, the length of the        *)
(* support comes from a quotient of doubles, and its elements are float32  *)
(* numbers, given by their exact values.  Vmin and Vmax are whole numbers. *)
(***************************************************************************)
EXTENDS Integers, Sequences, FiniteSets, TLC

\* ---- bounds of the explored inputs ----
MaxBatch == 2
MaxWidth == 2
MaxActions == 2
MaxAtoms == 4
MaxGru == 2
MaxV == 2

\* ---- layer widths fixed by the source ----
Hidden1 == 128
Hidden2 == 256
ConvCh1 == 32
ConvCh2 == 64

\* ---- outcome of a call: the value returned, or the exception raised ----
Ok(v) == [error |-> "none", value |-> v]
Raise(kind) == [error |-> kind, value |-> [type |-> "NoneType"]]
Failed(r) == r.error # "none"

\* ---- integer and rational arithmetic ----
Abs(x) == IF x < 0 THEN -x ELSE x
Max(a, b) == IF a >= b THEN a ELSE b

RECURSIVE Gcd(_, _)
Gcd(a, b) == IF b = 0 THEN a ELSE Gcd(b, a % b)

RECURSIVE Pow2(_)
Pow2(n) == IF n = 0 THEN 1 ELSE 2 * Pow2(n - 1)

\* n / d in lowest terms with a positive denominator (d # 0)
Rat(n, d) ==
    LET g == Gcd(Abs(n), Abs(d))
        s == IF d < 0 THEN -1 ELSE 1
    IN  << (s * n) \div g, (s * d) \div g >>

\* sums are formed over the least common denominator
RAdd(p, q) ==
    LET g == Gcd(p[2], q[2])
    IN  Rat(p[1] * (q[2] \div g) + q[1] * (p[2] \div g), (p[2] \div g) * q[2])
RSub(p, q) == RAdd(p, << -q[1], q[2] >>)
RMul(p, q) == Rat(p[1] * q[1], p[2] * q[2])
RDiv(p, q) == Rat(p[1] * q[2], p[2] * q[1])
RLe(p, q) == p[1] * q[2] <= q[1] * p[2]
RInt(n) == << n, 1 >>

RECURSIVE RSum(_)
RSum(s) == IF s = << >> THEN RInt(0) ELSE RAdd(Head(s), RSum(Tail(s)))

\* ---- binary floating point (IEEE 754, round to nearest, ties to even) ----
\* A natural number is the sequence of its hexadecimal digits, the least
\* significant first, without leading zeros: 0 is << >>, 300 is << 12, 2, 1 >>.
BNorm(a) ==
    IF \A i \in 1..Len(a) : a[i] = 0 THEN << >>
    ELSE SubSeq(a, 1, CHOOSE i \in 1..Len(a) : a[i] # 0 /\ \A j \in (i + 1)..Len(a) : a[j] = 0)

RECURSIVE BFromInt(_)
BFromInt(n) == IF n = 0 THEN << >> ELSE << n % 16 >> \o BFromInt(n \div 16)

RECURSIVE BToInt(_)
BToInt(a) == IF a = << >> THEN 0 ELSE a[1] + 16 * BToInt(Tail(a))

\* hexadecimal digit i and binary digit i of a, counted from 1 at the low end
Digit(a, i) == IF i >= 1 /\ i <= Len(a) THEN a[i] ELSE 0
Bit(a, i) == (Digit(a, ((i - 1) \div 4) + 1) \div Pow2((i - 1) % 4)) % 2
\* the number of binary digits of a
BLen(a) ==
    IF a = << >> THEN 0
    ELSE 4 * (Len(a) - 1) + (CHOOSE w \in 1..4 : a[Len(a)] \div Pow2(w - 1) = 1)

\* a + b: a carry enters digit i when a lower digit pair overflows and every
\* pair between sums to 15
BAdd(a, b) ==
    LET s(i) == Digit(a, i) + Digit(b, i)
        carry(i) == \E j \in 1..(i - 1) : s(j) >= 16 /\ \A k \in (j + 1)..(i - 1) : s(k) = 15
    IN  BNorm([i \in 1..(Max(Len(a), Len(b)) + 1) |->
                 (s(i) + (IF carry(i) THEN 1 ELSE 0)) % 16])

\* a - b for a >= b
BSub(a, b) ==
    LET borrow(i) == \E j \in 1..(i - 1) :
                        /\ Digit(a, j) < Digit(b, j)
                        /\ \A k \in (j + 1)..(i - 1) : Digit(a, k) = Digit(b, k)
    IN  BNorm([i \in 1..Len(a) |->
                 (16 + Digit(a, i) - Digit(b, i) - (IF borrow(i) THEN 1 ELSE 0)) % 16])

\* -1, 0 or 1 as a < b, a = b or a > b
BCmp(a, b) ==
    IF Len(a) # Len(b) THEN (IF Len(a) < Len(b) THEN -1 ELSE 1)
    ELSE IF \A i \in 1..Len(a) : a[i] = b[i] THEN 0
    ELSE LET i == CHOOSE i \in 1..Len(a) :
                    a[i] # b[i] /\ \A j \in (i + 1)..Len(a) : a[j] = b[j]
         IN  IF a[i] < b[i] THEN -1 ELSE 1

\* a * 2^k and floor(a / 2^k)
BShl(a, k) ==
    LET w == k \div 4
        p == Pow2(k % 4)
    IN  BNorm([i \in 1..(Len(a) + w + 1) |->
                 IF i <= w THEN 0
                 ELSE ((Digit(a, i - w) * p) % 16) + ((Digit(a, i - w - 1) * p) \div 16)])
BShr(a, k) ==
    LET w == k \div 4
        p == Pow2(k % 4)
    IN  BNorm([i \in 1..(Len(a) - w) |->
                 (Digit(a, i + w) \div p) + ((Digit(a, i + w + 1) % p) * (16 \div p))])

\* a times the digit u
BMulDigit(a, u) ==
    BAdd(BAdd(IF Bit(<< u >>, 1) = 1 THEN a ELSE << >>,
              IF Bit(<< u >>, 2) = 1 THEN BShl(a, 1) ELSE << >>),
         BAdd(IF Bit(<< u >>, 3) = 1 THEN BShl(a, 2) ELSE << >>,
              IF Bit(<< u >>, 4) = 1 THEN BShl(a, 3) ELSE << >>))

RECURSIVE BMul(_, _)
BMul(a, b) ==
    IF a = << >> \/ b = << >> THEN << >>
    ELSE IF Len(a) < Len(b) THEN BMul(b, a)
    ELSE BAdd(BMulDigit(a, b[1]), BShl(BMul(a, Tail(b)), 4))

\* long division, from digit j of a down, by the number whose multiples by
\* 0..15 are mult; r is the remainder left by the digits above j
RECURSIVE BDivHex(_, _, _, _)
BDivHex(a, mult, j, r) ==
    IF j = 0 THEN [q |-> << >>, r |-> r]
    ELSE LET r2 == BNorm(<< a[j] >> \o r)
             t == Cardinality({ u \in 1..15 : BCmp(mult[u], r2) <= 0 })
         IN  IF t >= 0
             THEN LET low == BDivHex(a, mult, j - 1, BSub(r2, mult[t]))
                  IN  [q |-> low.q \o << t >>, r |-> low.r]
             ELSE [q |-> << >>, r |-> r]

\* quotient q and remainder r of a by b > 0: the digits of a that can only
\* give leading zeros of the quotient are taken as the first remainder
BDivMod(a, b) ==
    LET n == IF Len(a) < Len(b) THEN 0 ELSE Len(a) - Len(b) + 1
        mult == [u \in 0..15 |-> BMulDigit(b, u)]
        d == BDivHex(a, mult, n, SubSeq(a, n + 1, Len(a)))
    IN  [q |-> BNorm(d.q), r |-> d.r]

\* A floating-point number is [neg, m, e]: the value (-1)^neg * m * 2^e with m
\* a natural number that is odd, or zero with e = 0.  The numbers met here are
\* far from the overflow and underflow thresholds, and zero has no sign.
FCanon(neg, m, e) ==
    IF m = << >> THEN [neg |-> FALSE, m |-> << >>, e |-> 0]
    ELSE LET k == CHOOSE i \in 1..BLen(m) : Bit(m, i) = 1 /\ \A j \in 1..(i - 1) : Bit(m, j) = 0
         IN  [neg |-> neg, m |-> BShr(m, k - 1), e |-> e + k - 1]

\* the number of prec significant bits nearest to (-1)^neg * n * 2^e, plus a
\* positive amount below one unit of n when sticky; ties go to the even one
Round(neg, n, e, sticky, prec) ==
    LET k == BLen(n) - prec IN
    IF k <= 0 THEN FCanon(neg, n, e)
    ELSE LET kept == BShr(n, k)
             rest == sticky \/ \E i \in 1..(k - 1) : Bit(n, i) = 1
             up == Bit(n, k) = 1 /\ (rest \/ Bit(kept, 1) = 1)
         IN  FCanon(neg, IF up THEN BAdd(kept, << 1 >>) ELSE kept, e + k)
\* ... to a double (a Python float), and to a float32 (a tensor element)
RoundDouble(neg, n, e, sticky) == Round(neg, n, e, sticky, 53)
RoundSingle(neg, n, e, sticky) == Round(neg, n, e, sticky, 24)

\* the double of a Python int
FFromInt(n) == FCanon(n < 0, BFromInt(Abs(n)), 0)
FSign(a) == IF a.m = << >> THEN 0 ELSE IF a.neg THEN -1 ELSE 1
FNeg(a) == FCanon(~a.neg, a.m, a.e)

\* a + b, a - b, a * b, a / b on doubles
FAdd(a, b) ==
    LET e == IF a.e < b.e THEN a.e ELSE b.e
        x == BShl(a.m, a.e - e)
        y == BShl(b.m, b.e - e)
    IN  IF a.neg = b.neg THEN RoundDouble(a.neg, BAdd(x, y), e, FALSE)
        ELSE IF BCmp(x, y) >= 0 THEN RoundDouble(a.neg, BSub(x, y), e, FALSE)
        ELSE RoundDouble(b.neg, BSub(y, x), e, FALSE)
FSub(a, b) == FAdd(a, FNeg(b))
FMul(a, b) == RoundDouble(a.neg # b.neg, BMul(a.m, b.m), a.e + b.e, FALSE)
FDiv(a, b) ==
    \* the quotient of the scaled mantissas has more bits than a double keeps
    LET s == Max(0, 55 + BLen(b.m) - BLen(a.m))
        d == BDivMod(BShl(a.m, s), b.m)
    IN  RoundDouble(a.neg # b.neg, d.q, a.e - b.e - s, d.r # << >>)

\* math.ceil of a double, as an integer
FCeil(a) ==
    IF a.e >= 0 THEN (IF a.neg THEN -1 ELSE 1) * BToInt(BShl(a.m, a.e))
    ELSE LET q == BToInt(BShr(a.m, -a.e)) IN IF a.neg THEN -q ELSE q + 1

\* n / d of two Python ints (d # 0): the double nearest to the quotient
Double(n, d) == FDiv(FFromInt(n), FFromInt(d))
\* a double stored as a float32 element
Single(a) == RoundSingle(a.neg, a.m, a.e, FALSE)
\* the value of a floating-point number, as a rational
FReal(a) ==
    LET m == (IF a.neg THEN -1 ELSE 1) * BToInt(a.m)
    IN  IF a.e >= 0 THEN RInt(m * Pow2(a.e)) ELSE Rat(m, Pow2(-a.e))

\* exp of the logit k (k * ln 2 in real terms)
Exp(k) == IF k >= 0 THEN RInt(Pow2(k)) ELSE Rat(1, Pow2(-k))

\* ---- tensors ----
RECURSIVE Numel(_)
Numel(shape) == IF shape = << >> THEN 1 ELSE Head(shape) * Numel(Tail(shape))

\* Python values the methods pass around
Tensor(shape, data) == [type |-> "Tensor", shape |-> shape, data |-> data]
Tuple(items) == [type |-> "tuple", items |-> items]
None == [type |-> "NoneType"]
IsTensor(x) == x.type = "Tensor"
Last(s) == s[Len(s)]
Front(s) == SubSeq(s, 1, Len(s) - 1)

\* the element values a layer stack may emit
Vals == {-1, 1}
\* The weights of a layer stack are set at random when the stack is built and no
\* method changes them.  They are explored by what they make the stack emit:
\* one value in the first element and one in all the others.
Weights == [first : Vals, rest : Vals]
ConstWeights == { w \in Weights : w.first = w.rest }
\* weights of a stack whose output is only read by another stack
Unobserved == [first |-> 1, rest |-> 1]
\* the tensor of this shape a stack with weights w emits
Emit(w, shape) ==
    Tensor(shape, [i \in 1..Numel(shape) |-> IF i = 1 THEN w.first ELSE w.rest])
\* an observation batch: only its shape is modelled
Batch(shape) == [type |-> "Tensor", shape |-> shape]

\* ---- layers (torch.nn), as far as shapes and errors go ----
Linear(in, out) == [kind |-> "Linear", in |-> in, out |-> out]
ReLU == [kind |-> "ReLU"]
Conv2d(in, out, k, s) == [kind |-> "Conv2d", in |-> in, out |-> out, k |-> k, s |-> s]
GRUCell(in, hidden, w) == [kind |-> "GRUCell", in |-> in, hidden |-> hidden, w |-> w]

\* variant: the stride is forgotten
ConvOutNoStride(n, k, s) == (n - k) + 1

\* output size of one convolved axis: floor((n - k) / s) + 1
ConvOut(n, k, s) == ((n - k) \div s) + 1

\* shape a layer emits for an input of this shape, or the error it raises
LayerShape(layer, shape) ==
    CASE layer.kind = "Linear" ->
            IF Len(shape) >= 1 /\ Last(shape) = layer.in
            THEN Ok(Front(shape) \o << layer.out >>)
            ELSE Raise("RuntimeError")
      [] layer.kind = "ReLU" -> Ok(shape)
      [] layer.kind = "Conv2d" ->
            LET r == Len(shape) IN
            IF r \in {3, 4} /\ shape[r - 2] = layer.in
                 /\ shape[r - 1] >= layer.k /\ shape[r] >= layer.k
            THEN Ok(SubSeq(shape, 1, r - 3) \o
                    << layer.out, ConvOut(shape[r - 1], layer.k, layer.s),
                       ConvOut(shape[r], layer.k, layer.s) >>)
            ELSE Raise("RuntimeError")

\* nn.Sequential: the layers in order, the first error wins
RECURSIVE SequentialShape(_, _)
SequentialShape(layers, shape) ==
    IF layers = << >> THEN Ok(shape)
    ELSE LET r == LayerShape(Head(layers), shape) IN
         IF Failed(r) THEN r ELSE SequentialShape(Tail(layers), r.value)

\* a stack of layers with its weights
Module(layers, w) == [type |-> "Module", layers |-> layers, w |-> w]
\* calling an attribute that holds a module, or None, on the tensor x
CallModule(m, x) ==
    IF m.type = "NoneType" THEN Raise("TypeError")
    ELSE LET r == SequentialShape(m.layers, x.shape) IN
         IF Failed(r) THEN r ELSE Ok(Emit(m.w, r.value))

\* ---- tensor operations used by the forward passes ----
\* t.view(b, -1, k): same elements, the middle size inferred
View3(t, b, k) ==
    IF b * k > 0 /\ Numel(t.shape) % (b * k) = 0
    THEN Ok(Tensor(<< b, Numel(t.shape) \div (b * k), k >>, t.data))
    ELSE Raise("RuntimeError")

\* t.reshape(-1, k)
Reshape2(t, k) ==
    IF k > 0 /\ Numel(t.shape) % k = 0
    THEN Ok(Tensor(<< Numel(t.shape) \div k, k >>, t.data))
    ELSE Raise("RuntimeError")

\* position of element [b, a, k] of a tensor of shape sh = (B, A, K)
Idx3(sh, b, a, k) == ((b - 1) * sh[2] + (a - 1)) * sh[3] + k
\* indices <<b, a, k>> of position i of a tensor of shape sh = (B, A, K)
Unravel3(sh, i) ==
    << ((i - 1) \div (sh[2] * sh[3])) + 1, (((i - 1) \div sh[3]) % sh[2]) + 1, ((i - 1) % sh[3]) + 1 >>

\* nn.Softmax(dim) on a rank-3 tensor of logits, dim in {0, 1, 2}:
\* each element's exp over the sum of the exps along axis dim
Softmax(t, dim) ==
    LET sh == t.shape
        along(ix) == [j \in 1..sh[dim + 1] |->
                        Exp(t.data[Idx3(sh, IF dim = 0 THEN j ELSE ix[1],
                                            IF dim = 1 THEN j ELSE ix[2],
                                            IF dim = 2 THEN j ELSE ix[3])])]
    IN  Tensor(sh, [i \in 1..Numel(sh) |->
                      RDiv(Exp(t.data[i]), RSum(along(Unravel3(sh, i))))])

\* t * v for a rank-3 t and a rank-1 v of rationals, broadcast on the last axis
MulLast(t, v) ==
    LET sh == t.shape
        K == sh[3]
        L == v.shape[1]
        out == << sh[1], sh[2], Max(K, L) >>
    IN  IF K = L \/ K = 1 \/ L = 1
        THEN Ok(Tensor(out, [i \in 1..Numel(out) |->
                  LET ix == Unravel3(out, i) IN
                  RMul(t.data[Idx3(sh, ix[1], ix[2], IF K = 1 THEN 1 ELSE ix[3])],
                       v.data[IF L = 1 THEN 1 ELSE ix[3]])]))
        ELSE Raise("RuntimeError")

\* torch.sum(t, dim=2) of a rank-3 tensor of rationals
SumDim2(t) ==
    LET sh == t.shape IN
    Tensor(<< sh[1], sh[2] >>,
           [i \in 1..(sh[1] * sh[2]) |->
              RSum([k \in 1..sh[3] |-> t.data[(i - 1) * sh[3] + k]])])

\* t.mean(): the mean of all elements of a tensor of integers
Mean(t) == RDiv(RSum([i \in 1..Numel(t.shape) |-> RInt(t.data[i])]), RInt(Numel(t.shape)))

\* a + b for rank-2 tensors of rationals, broadcast on both axes
Add2(a, b) ==
    LET ra == a.shape[1]
        ca == a.shape[2]
        rb == b.shape[1]
        cb == b.shape[2]
        out == << Max(ra, rb), Max(ca, cb) >>
    IN  IF (ra = rb \/ ra = 1 \/ rb = 1) /\ (ca = cb \/ ca = 1 \/ cb = 1)
        THEN Ok(Tensor(out, [i \in 1..Numel(out) |->
                  LET r == ((i - 1) \div out[2]) + 1
                      c == ((i - 1) % out[2]) + 1
                  IN  RAdd(a.data[((IF ra = 1 THEN 1 ELSE r) - 1) * ca + (IF ca = 1 THEN 1 ELSE c)],
                           b.data[((IF rb = 1 THEN 1 ELSE r) - 1) * cb + (IF cb = 1 THEN 1 ELSE c)])]))
        ELSE Raise("RuntimeError")

\* t - x for a tensor of integers and a rational scalar
SubScalar(t, x) == Tensor(t.shape, [i \in 1..Numel(t.shape) |-> RSub(RInt(t.data[i]), x)])
\* a tensor of integers as a tensor of rationals
AsRat(t) == Tensor(t.shape, [i \in 1..Numel(t.shape) |-> RInt(t.data[i])])

\* torch.arange(start, end, step) on Python numbers (doubles), giving float32
\* elements: a zero step, or an end on the side of start the step points away
\* from, is an error; the length is ceil((end - start) / step) computed in
\* doubles, element i is start + step * i computed in doubles and stored as
\* float32.  The elements are given by their values, as rationals.
Arange(start, end, step) ==
    LET span == FSub(end, start)
        size == FCeil(FDiv(span, step))
    IN  IF FSign(step) = 0 THEN Raise("RuntimeError")
        ELSE IF ~(\/ (FSign(step) > 0 /\ FSign(span) >= 0)
                  \/ (FSign(step) < 0 /\ FSign(span) <= 0)) THEN Raise("RuntimeError")
        ELSE Ok(Tensor(<< size >>,
                       [i \in 1..size |->
                          FReal(Single(FAdd(start, FMul(step, FFromInt(i - 1)))))]))

\* t.new(rows, cols).zero_()
Zeros(rows, cols) == Tensor(<< rows, cols >>, [i \in 1..(rows * cols) |-> 0])

\* nn.GRUCell on a rank-2 input x and hidden state h: the new hidden state; the
\* widths must be the cell's and the two batch sizes equal
CallGRUCell(cell, x, h) ==
    IF Len(x.shape) = 2 /\ Len(h.shape) = 2 /\ x.shape[2] = cell.in
         /\ h.shape[2] = cell.hidden /\ x.shape[1] = h.shape[1]
    THEN Ok(Emit(cell.w, << x.shape[1], cell.hidden >>))
    ELSE Raise("RuntimeError")

\* ---- the classes: methods each one defines, with the arguments each takes ----
Methods(cls) ==
    CASE cls = "VanillaDQN" ->
            [forward |-> 1, conv_features |-> 1, conv_layer |-> 1, feature_size |-> 1]
      [] cls = "DuelingDQN" ->
            [forward |-> 1, conv_features |-> 1, conv_layer |-> 1, feature_size |-> 1]
      [] cls = "DistributionalDQN" ->
            [forward |-> 1, get_q_vals |-> 1, conv_features |-> 1, conv_layer |-> 1]
      [] cls = "RecurrentDQN" ->
            [forward |-> 2, init_hidden |-> 0, conv_features |-> 1, conv_layer |-> 1,
             feature_size |-> 1]

\* binding self.name(nargs arguments): "none", or the exception the call raises
\* before the method's body runs
CallMethod(cls, name, nargs) ==
    IF name \notin DOMAIN Methods(cls) THEN "AttributeError"
    ELSE IF Methods(cls)[name] # nargs THEN "TypeError"
    ELSE "none"

\* conv_layer of VanillaDQN, DuelingDQN and RecurrentDQN
conv_layer(input_dim) ==
    Module(<< Conv2d(input_dim[1], ConvCh1, 8, 4), ReLU,
              Conv2d(ConvCh1, ConvCh2, 4, 2), ReLU,
              Conv2d(ConvCh2, ConvCh2, 3, 1), ReLU >>, Unobserved)

\* conv_layer of DistributionalDQN builds the stack and returns nothing
Distributional_conv_layer(input_dim) == None

\* feature_size(input_dim): its body names autograd, which the file never imports
feature_size(input_dim) == Raise("NameError")

\* self.name(...) in a constructor: the binding error, else the body's outcome
Invoke(cls, name, nargs, body) ==
    LET e == CallMethod(cls, name, nargs) IN IF e # "none" THEN Raise(e) ELSE body

\* ---- constructors: Ok(the instance) or the exception raised ----
\* variant: the first layer is sized from input_dim[0] in both modes
VanillaDQN_init_unprobed(input_dim, output_dim, use_conv, w) ==
    Ok([cls |-> "VanillaDQN", input_dim |-> input_dim, output_dim |-> output_dim,
        use_conv |-> use_conv,
        features |-> IF use_conv THEN conv_layer(input_dim) ELSE None,
        fc |-> Module(<< Linear(input_dim[1], Hidden1), ReLU,
                         Linear(Hidden1, Hidden2), ReLU,
                         Linear(Hidden2, output_dim) >>, w)])

VanillaDQN_init(input_dim, output_dim, use_conv, w) ==
    LET cls == "VanillaDQN"
        features == IF use_conv THEN Invoke(cls, "conv_layer", 1, Ok(conv_layer(input_dim)))
                    ELSE Ok(None)
        width == IF use_conv THEN Invoke(cls, "feature_size", 0, feature_size(<< >>))
                 ELSE Ok(input_dim[1])
    IN  IF Failed(features) THEN features
        ELSE IF Failed(width) THEN width
        ELSE Ok([cls |-> cls, input_dim |-> input_dim, output_dim |-> output_dim,
                 use_conv |-> use_conv, features |-> features.value,
                 fc |-> Module(<< Linear(width.value, Hidden1), ReLU,
                                  Linear(Hidden1, Hidden2), ReLU,
                                  Linear(Hidden2, output_dim) >>, w)])

DuelingDQN_init(input_dim, output_dim, use_conv, wv, wa) ==
    LET cls == "DuelingDQN"
        features == IF use_conv THEN Invoke(cls, "conv_layer", 1, Ok(conv_layer(input_dim)))
                    ELSE Ok(Module(<< Linear(input_dim[1], Hidden1), ReLU >>, Unobserved))
    IN  IF Failed(features) THEN features
        ELSE Ok([cls |-> cls, input_dim |-> input_dim, output_dim |-> output_dim,
                 use_conv |-> use_conv, features |-> features.value,
                 value_stream |-> Module(<< Linear(Hidden1, Hidden1), ReLU,
                                            Linear(Hidden1, 1) >>, wv),
                 advantage_stream |-> Module(<< Linear(Hidden1, Hidden1), ReLU,
                                                Linear(Hidden1, output_dim) >>, wa)])

\* variant: the end of the range is Vmax itself, which arange leaves out
SupportOpenEnd(Vmin, Vmax, delta_z) == Arange(FFromInt(Vmin), FFromInt(Vmax), delta_z)

\* the support of the distribution: arange(Vmin, Vmax + delta_z, delta_z)
Support(Vmin, Vmax, delta_z) ==
    Arange(FFromInt(Vmin), FAdd(FFromInt(Vmax), delta_z), delta_z)

\* the constructor from line 112 on, given the delta_z and the outcome of the
\* arange of lines 109 and 110
DistributionalDQN_layers(input_dim, output_dim, use_conv, n_atoms, Vmin, Vmax, delta_z, support, w) ==
    LET cls == "DistributionalDQN"
        features == IF use_conv
                    THEN Invoke(cls, "conv_layer", 1, Ok(Distributional_conv_layer(input_dim)))
                    ELSE Ok(None)
        width == IF use_conv THEN Invoke(cls, "feature_size", 0, feature_size(<< >>))
                 ELSE Ok(input_dim[1])
    IN  IF Failed(support) THEN support
        ELSE IF Failed(features) THEN features
        ELSE IF Failed(width) THEN width
        ELSE Ok([cls |-> cls, input_dim |-> input_dim, output_dim |-> output_dim,
                 n_atoms |-> n_atoms, use_conv |-> use_conv,
                 Vmin |-> Vmin, Vmax |-> Vmax, delta_z |-> delta_z,
                 support |-> support.value, features |-> features.value,
                 fc |-> Module(<< Linear(width.value, Hidden1), ReLU,
                                  Linear(Hidden1, Hidden2), ReLU,
                                  Linear(Hidden2, output_dim * n_atoms) >>, w),
                 softmax |-> [dim |-> 1]])

\* true division of two ints: a double
DeltaZ(n_atoms, Vmin, Vmax) == Double(Vmax - Vmin, n_atoms - 1)

DistributionalDQN_init(input_dim, output_dim, use_conv, n_atoms, Vmin, Vmax, w) ==
    IF n_atoms - 1 = 0 THEN Raise("ZeroDivisionError")
    ELSE LET delta_z == DeltaZ(n_atoms, Vmin, Vmax)
             support == Support(Vmin, Vmax, delta_z)
         IN  DistributionalDQN_layers(input_dim, output_dim, use_conv, n_atoms, Vmin, Vmax,
                                      delta_z, support, w)

RecurrentDQN_init(input_dim, gru_size, output_dim, use_conv, wq, wh) ==
    LET cls == "RecurrentDQN"
        features == IF use_conv THEN Invoke(cls, "conv_layer", 0, Ok(conv_layer(<< >>)))
                    ELSE Ok(None)
        width == IF use_conv THEN Invoke(cls, "feature_size", 0, feature_size(<< >>))
                 ELSE Ok(input_dim[1])
    IN  IF Failed(features) THEN features
        ELSE IF Failed(width) THEN width
        ELSE Ok([cls |-> cls, input_dim |-> input_dim, gru_size |-> gru_size,
                 output_dim |-> output_dim, use_conv |-> use_conv,
                 features |-> features.value,
                 linear1 |-> Module(<< Linear(width.value, gru_size) >>, Unobserved),
                 gru |-> GRUCell(gru_size, gru_size, wh),
                 linear2 |-> Module(<< Linear(gru_size, output_dim) >>, wq)])

\* ---- methods: Ok(the value returned) or the exception raised ----
\* conv_features(state) of VanillaDQN, DuelingDQN and RecurrentDQN:
\* self.features(state) viewed as (feats.size(0), -1)
conv_features(self, state) ==
    LET feats == CallModule(self.features, state) IN
    IF Failed(feats) THEN feats
    ELSE Ok(Tensor(<< feats.value.shape[1], Numel(feats.value.shape) \div feats.value.shape[1] >>,
                   feats.value.data))

\* variant: the method keeps what it returns in an attribute
SelfKeepsResult(self, result) == [last_result |-> result] @@ self

\* the effect of forward, get_q_vals and init_hidden on the instance:
\* none of them assigns to an attribute of self
SelfAfterCall(self, result) == self

VanillaDQN_forward(self, state) ==
    LET feats == IF self.use_conv THEN conv_features(self, state) ELSE Ok(state)
        qvals == CallModule(self.fc, state)
    IN  IF Failed(feats) THEN feats ELSE qvals

DuelingDQN_forward(self, state) ==
    LET feats == IF self.use_conv THEN conv_features(self, state)
                 ELSE CallModule(self.features, state)
        values == CallModule(self.value_stream, feats.value)
        advantages == CallModule(self.advantage_stream, feats.value)
    IN  IF Failed(feats) THEN feats
        ELSE IF Failed(values) THEN values
        ELSE IF Failed(advantages) THEN advantages
        ELSE Add2(AsRat(values.value),
                  SubScalar(advantages.value, Mean(advantages.value)))

\* self.softmax(x): nn.Softmax calls x.softmax(dim), which only a tensor has
ApplySoftmax(self, x) ==
    IF IsTensor(x) THEN Ok(Softmax(x, self.softmax.dim)) ELSE Raise("AttributeError")

DistributionalDQN_forward(self, state) ==
    LET batch_size == state.shape[1]
        \* conv_features is named without self: no such global exists
        feats == IF self.use_conv THEN Raise("NameError") ELSE Ok(state)
        out == CallModule(self.fc, state)
        dist == View3(out.value, batch_size, self.n_atoms)
        probs == ApplySoftmax(self, dist.value)
        weighted == MulLast(probs.value, self.support)
        Qvals == SumDim2(weighted.value)
    IN  IF Failed(feats) THEN feats
        ELSE IF Failed(out) THEN out
        ELSE IF Failed(dist) THEN dist
        ELSE IF Failed(probs) THEN probs
        ELSE IF Failed(weighted) THEN weighted
        ELSE Ok(Tuple(<< dist.value, Qvals >>))

DistributionalDQN_get_q_vals(self, state) ==
    LET dist == DistributionalDQN_forward(self, state)
        probs == ApplySoftmax(self, dist.value)
        weights == MulLast(probs.value, self.support)
        qvals == SumDim2(weights.value)
    IN  IF Failed(dist) THEN dist
        ELSE IF Failed(probs) THEN probs
        ELSE IF Failed(weights) THEN weights
        ELSE Ok(Tuple(<< dist.value, qvals >>))

RecurrentDQN_forward(self, state_input, hidden_state) ==
    LET feats == IF self.use_conv THEN conv_features(self, state_input)
                 ELSE Ok(state_input)
        x == CallModule(self.linear1, feats.value)
        h_in == IF IsTensor(hidden_state) THEN Reshape2(hidden_state, self.gru_size)
                ELSE Raise("AttributeError")
        h == CallGRUCell(self.gru, x.value, h_in.value)
        q == CallModule(self.linear2, h.value)
    IN  IF Failed(feats) THEN feats
        ELSE IF Failed(x) THEN x
        ELSE IF Failed(h_in) THEN h_in
        ELSE IF Failed(h) THEN h
        ELSE IF Failed(q) THEN q
        ELSE Ok(Tuple(<< q.value, h.value >>))

RecurrentDQN_init_hidden(self) == Ok(Zeros(1, self.gru_size))

\* ---- state ----
VARIABLES
    self,   \* the instance under construction or constructed, NoInstance before and after a failed constructor
    call,   \* the last call made: the method and its arguments
    ret,    \* its outcome: the value returned or the exception raised
    hid     \* the hidden state the caller of a RecurrentDQN holds between steps
vars == << self, call, ret, hid >>

NoInstance == [cls |-> "none"]
FlatDims == { << w >> : w \in 1..MaxWidth }
\* image sizes around the sizes at which the convolutions change their output size
ImageSizes == {35, 36, 44, 52}
ImageDims == { << 4, h, w >> : h \in ImageSizes, w \in ImageSizes }
InputDims == FlatDims \cup ImageDims
\* without convolution only input_dim[0] is read
Dims(use_conv) == IF use_conv THEN InputDims ELSE FlatDims
\* atom counts and value ranges explored
Supports ==
    { c \in [n_atoms : 2..MaxAtoms, Vmin : (-1)..MaxV, Vmax : (-1)..MaxV] : c.Vmin < c.Vmax }
\* lines 109 and 110 read n_atoms, Vmin and Vmax only: the delta_z and the
\* outcome of the arange they give for each choice explored
SupportsMade ==
    { LET delta_z == DeltaZ(c.n_atoms, c.Vmin, c.Vmax)
      IN  [n_atoms |-> c.n_atoms, Vmin |-> c.Vmin, Vmax |-> c.Vmax,
           delta_z |-> delta_z, support |-> Support(c.Vmin, c.Vmax, delta_z)] : c \in Supports }
\* the batches a caller passes: of the declared input_dim, and flat ones that
\* are one wider than input_dim[0]
Batches(inst) ==
    { Batch(<< n >> \o d) : n \in 1..MaxBatch,
                            d \in {inst.input_dim, << inst.input_dim[1] + 1 >>} }

Init ==
    /\ self = NoInstance
    /\ call = [op |-> "none"]
    /\ ret = Ok(None)
    /\ hid = [value |-> None, from_init |-> FALSE, batch |-> 0]

\* a constructor call with outcome r
Construct(args, r) ==
    /\ call' = [op |-> "__init__"] @@ args
    /\ ret' = [error |-> r.error, value |-> None]
    /\ self' = IF Failed(r) THEN NoInstance ELSE r.value
    /\ UNCHANGED hid

VanillaNew ==
    /\ call.op = "none"
    /\ \E use_conv \in BOOLEAN, output_dim \in 1..MaxActions, w \in Weights :
         \E input_dim \in Dims(use_conv) :
           Construct([cls |-> "VanillaDQN", input_dim |-> input_dim, use_conv |-> use_conv],
                     VanillaDQN_init(input_dim, output_dim, use_conv, w))

DuelingNew ==
    /\ call.op = "none"
    /\ \E use_conv \in BOOLEAN, output_dim \in 1..MaxActions, wv \in ConstWeights, wa \in Weights :
         \E input_dim \in Dims(use_conv) :
           Construct([cls |-> "DuelingDQN", input_dim |-> input_dim, use_conv |-> use_conv],
                     DuelingDQN_init(input_dim, output_dim, use_conv, wv, wa))

DistributionalNew ==
    /\ call.op = "none"
    /\ \E c \in SupportsMade, use_conv \in BOOLEAN, output_dim \in 1..MaxActions, w \in Weights :
         \E input_dim \in Dims(use_conv) :
           Construct([cls |-> "DistributionalDQN", input_dim |-> input_dim,
                      use_conv |-> use_conv],
                     DistributionalDQN_layers(input_dim, output_dim, use_conv, c.n_atoms,
                                              c.Vmin, c.Vmax, c.delta_z, c.support, w))

RecurrentNew ==
    /\ call.op = "none"
    /\ \E use_conv \in BOOLEAN, gru_size \in 1..MaxGru, output_dim \in 1..MaxActions,
          wq \in ConstWeights, wh \in ConstWeights :
         \E input_dim \in Dims(use_conv) :
           Construct([cls |-> "RecurrentDQN", input_dim |-> input_dim, use_conv |-> use_conv],
                     RecurrentDQN_init(input_dim, gru_size, output_dim, use_conv, wq, wh))

\* a method call on the instance with outcome r
Called(c, r) ==
    /\ call' = c
    /\ ret' = r
    /\ self' = SelfAfterCall(self, r)

VanillaForward ==
    /\ self.cls = "VanillaDQN"
    /\ \E state \in Batches(self) :
          Called([op |-> "forward", state |-> state], VanillaDQN_forward(self, state))
    /\ UNCHANGED hid

DuelingForward ==
    /\ self.cls = "DuelingDQN"
    /\ \E state \in Batches(self) :
          Called([op |-> "forward", state |-> state], DuelingDQN_forward(self, state))
    /\ UNCHANGED hid

DistributionalForward ==
    /\ self.cls = "DistributionalDQN"
    /\ \E state \in Batches(self) :
          Called([op |-> "forward", state |-> state], DistributionalDQN_forward(self, state))
    /\ UNCHANGED hid

DistributionalGetQVals ==
    /\ self.cls = "DistributionalDQN"
    /\ \E state \in Batches(self) :
          Called([op |-> "get_q_vals", state |-> state],
                 DistributionalDQN_get_q_vals(self, state))
    /\ UNCHANGED hid

\* the caller starts an episode: it takes its hidden state from init_hidden
RecurrentInitHidden ==
    /\ self.cls = "RecurrentDQN"
    /\ LET r == RecurrentDQN_init_hidden(self) IN
          /\ Called([op |-> "init_hidden"], r)
          /\ hid' = [value |-> r.value, from_init |-> TRUE, batch |-> 0]

\* one step: the caller passes the hidden state it holds (m = 0) or a zero
\* hidden state for a batch of m, and keeps the hidden state returned
RecurrentForward ==
    /\ self.cls = "RecurrentDQN"
    /\ \E state \in Batches(self), m \in 0..MaxBatch :
          LET hidden_state == IF m = 0 THEN hid.value ELSE Zeros(m, self.gru_size)
              r == RecurrentDQN_forward(self, state, hidden_state)
              \* the call continues a sequence begun by init_hidden on batches of one size
              chained == m = 0 /\ hid.from_init /\ hid.batch \in {0, state.shape[1]}
          IN  /\ Called([op |-> "forward", state |-> state, hidden_state |-> hidden_state,
                         chained |-> chained], r)
              /\ hid' = IF Failed(r) THEN hid
                        ELSE [value |-> r.value.items[2], from_init |-> chained,
                              batch |-> state.shape[1]]

Next ==
    \/ VanillaNew
    \/ DuelingNew
    \/ DistributionalNew
    \/ RecurrentNew
    \/ VanillaForward
    \/ DuelingForward
    \/ DistributionalForward
    \/ DistributionalGetQVals
    \/ RecurrentInitHidden
    \/ RecurrentForward

Spec == Init /\ [][Next]_vars

\* ---- properties ----
Constructed == self.cls # "none"
\* the last call was method op of an instance of class cls
IsCall(cls, op) == self.cls = cls /\ call.op = op
\* ... on a batch of n >= 1 observations of width input_dim[0]
FlatInput == Len(call.state.shape) = 2 /\ call.state.shape[2] = self.input_dim[1]
\* ... on a batch of observations of shape input_dim = (channels, height, width)
ImageInput == Len(self.input_dim) = 3 /\ call.state.shape = << call.state.shape[1] >> \o self.input_dim
BatchSize == call.state.shape[1]
Returned == ret.error = "none"
HasShape(t, shape) == IsTensor(t) /\ t.shape = shape /\ Len(t.data) = Numel(shape)
\* element [b, a] of a rank-2 tensor
At2(t, b, a) == t.data[(b - 1) * t.shape[2] + a]

\* C1: without convolution, forward on a batch of N observations of width
\* input_dim[0] (and, for RecurrentDQN, a hidden state of shape (N, gru_size))
\* returns action-values of shape (N, output_dim); the head of DistributionalDQN
\* is output_dim * n_atoms wide and its forward returns a distribution of shape
\* (N, output_dim, n_atoms) with expected values of shape (N, output_dim).
C1_ForwardShapes ==
    (Constructed /\ call.op = "forward" /\ ~self.use_conv /\ FlatInput) =>
        CASE self.cls \in {"VanillaDQN", "DuelingDQN"} ->
                Returned /\ HasShape(ret.value, << BatchSize, self.output_dim >>)
          [] self.cls = "DistributionalDQN" ->
                /\ Last(self.fc.layers).out = self.output_dim * self.n_atoms
                /\ Returned
                /\ ret.value.type = "tuple"
                /\ HasShape(ret.value.items[1], << BatchSize, self.output_dim, self.n_atoms >>)
                /\ HasShape(ret.value.items[2], << BatchSize, self.output_dim >>)
          [] self.cls = "RecurrentDQN" ->
                (IsTensor(call.hidden_state)
                   /\ call.hidden_state.shape = << BatchSize, self.gru_size >>) =>
                    /\ Returned
                    /\ HasShape(ret.value.items[1], << BatchSize, self.output_dim >>)

\* C2: the first result of DistributionalDQN.forward is a probability
\* distribution per action: for every batch element and action its n_atoms
\* entries are non-negative and sum to 1.
C2_ReturnsDistribution ==
    (IsCall("DistributionalDQN", "forward") /\ Returned) =>
        LET dist == ret.value.items[1] IN
        \A b \in 1..dist.shape[1], a \in 1..dist.shape[2] :
            LET row == [k \in 1..dist.shape[3] |-> dist.data[Idx3(dist.shape, b, a, k)]] IN
            /\ \A k \in 1..Len(row) : row[k] >= 0
            /\ RSum([k \in 1..Len(row) |-> RInt(row[k])]) = RInt(1)

\* C3: DuelingDQN.forward returns, for every batch element b and action a,
\* V[b] + (A[b, a] - the mean of A[b, .] over the actions).
C3_PerObservationMean ==
    (IsCall("DuelingDQN", "forward") /\ ~self.use_conv /\ FlatInput /\ Returned) =>
        LET V == Emit(self.value_stream.w, << BatchSize, 1 >>)
            A == Emit(self.advantage_stream.w, << BatchSize, self.output_dim >>)
            rowmean(b) == RDiv(RSum([a \in 1..self.output_dim |-> RInt(At2(A, b, a))]),
                               RInt(self.output_dim))
        IN  \A b \in 1..BatchSize, a \in 1..self.output_dim :
                At2(ret.value, b, a)
                    = RAdd(RInt(At2(V, b, 1)), RSub(RInt(At2(A, b, a)), rowmean(b)))

\* C4: when Vmax - Vmin is a multiple of n_atoms - 1, the support of a
\* DistributionalDQN has exactly n_atoms elements, starts at Vmin, ends at Vmax
\* and rises by the constant step delta_z = (Vmax - Vmin) / (n_atoms - 1) > 0.
C4_SupportSpansRange ==
    (self.cls = "DistributionalDQN" /\ (self.Vmax - self.Vmin) % (self.n_atoms - 1) = 0) =>
        LET z == self.support.data IN
        /\ self.support.shape = << self.n_atoms >>
        /\ Len(z) = self.n_atoms
        /\ self.delta_z = FFromInt((self.Vmax - self.Vmin) \div (self.n_atoms - 1))
        /\ FSign(self.delta_z) > 0
        /\ z[1] = RInt(self.Vmin)
        /\ z[Len(z)] = RInt(self.Vmax)
        /\ \A i \in 1..(Len(z) - 1) : RSub(z[i + 1], z[i]) = FReal(self.delta_z)

C4_Witness ==
    /\ self.cls = "DistributionalDQN" /\ self.n_atoms >= 3 /\ self.Vmin < 0 /\ self.Vmax > 0
    /\ (self.Vmax - self.Vmin) % (self.n_atoms - 1) = 0

\* C5: no call of forward, get_q_vals or init_hidden changes an attribute of
\* the instance: the hidden state is never kept in it and the support stays
\* the one computed by the constructor.
C5_CallsLeaveInstance == [][Constructed => self' = self]_vars

C5_Witness ==
    /\ IsCall("RecurrentDQN", "forward") /\ Returned /\ call.chained
    /\ hid.value = ret.value.items[2]
    /\ DOMAIN self = {"cls", "input_dim", "gru_size", "output_dim", "use_conv",
                       "features", "linear1", "gru", "linear2"}

\* C6: with use_conv = True the constructors of VanillaDQN, DistributionalDQN
\* and RecurrentDQN, and only these three, raise and leave no instance, for
\* every input_dim; with use_conv = False they return an instance.
C6_ConvConstructorsRaise ==
    call.op = "__init__" =>
        /\ (call.cls \in {"VanillaDQN", "DistributionalDQN", "RecurrentDQN"} /\ call.use_conv)
              => (~Returned /\ self = NoInstance)
        /\ (call.cls = "DuelingDQN" \/ ~call.use_conv)
              => (Returned /\ self.cls = call.cls /\ self.use_conv = call.use_conv)

C6_Witness ==
    /\ call.op = "__init__" /\ call.cls = "VanillaDQN" /\ call.use_conv
    /\ Len(call.input_dim) = 3 /\ ret.error = "TypeError" /\ self = NoInstance

\* C7 as claimed: forward of a DuelingDQN built with use_conv = True raises
\* for every input_dim, on a batch of observations of that shape.
C7_ConvModeAlwaysRaises ==
    (IsCall("DuelingDQN", "forward") /\ self.use_conv /\ ImageInput) => ~Returned

\* C7 as amended: it raises unless the convolutions leave exactly 128 features,
\* that is unless one of height and width is in 36..43 and the other in 44..51;
\* then it returns action-values of shape (N, output_dim).
C7_ConvModeRaisesUnless128 ==
    (IsCall("DuelingDQN", "forward") /\ self.use_conv /\ ImageInput) =>
        LET H == self.input_dim[2]
            W == self.input_dim[3]
            fits == \/ (H \in 36..43 /\ W \in 44..51)
                    \/ (H \in 44..51 /\ W \in 36..43)
        IN  /\ Returned <=> fits
            /\ Returned => HasShape(ret.value, << BatchSize, self.output_dim >>)

C7_Witness ==
    /\ IsCall("DuelingDQN", "forward") /\ self.use_conv /\ ImageInput
    /\ self.input_dim[2] = 44 /\ self.input_dim[3] = 44 /\ ret.error = "RuntimeError"

\* C8: in a sequence of RecurrentDQN.forward calls on batches of N observations
\* that starts from init_hidden() and feeds each returned hidden state to the
\* next call, every call returns, with a hidden state of shape (N, gru_size)
\* and action-values of shape (N, output_dim).
C8_ChainedCallsReturn ==
    (IsCall("RecurrentDQN", "forward") /\ ~self.use_conv /\ FlatInput /\ call.chained) =>
        /\ Returned
        /\ HasShape(ret.value.items[1], << BatchSize, self.output_dim >>)
        /\ HasShape(ret.value.items[2], << BatchSize, self.gru_size >>)

\* C9: get_q_vals(state) of a DistributionalDQN without convolution returns,
\* and returns what forward(state) returns.
C9_GetQValsIsForward ==
    (IsCall("DistributionalDQN", "get_q_vals") /\ ~self.use_conv) =>
        /\ Returned
        /\ ret = DistributionalDQN_forward(self, call.state)

\* C10: every expected action-value returned by DistributionalDQN.forward lies
\* in [Vmin, Vmax].
C10_ExpectedValueInRange ==
    (IsCall("DistributionalDQN", "forward") /\ Returned) =>
        LET Q == ret.value.items[2] IN
        \A i \in 1..Len(Q.data) :
            RLe(RInt(self.Vmin), Q.data[i]) /\ RLe(Q.data[i], RInt(self.Vmax))

====
